---- MODULE Spec2Model ----
(***************************************************************************)
(* The SBI Debug Console Extension shim of src/debug_console.rs:           *)
(* write_byte, write and read, each marshalling its arguments into one     *)
(* firmware call (ecall) and translating the (status, value) pair the      *)
(* firmware answers.  The firmware is the environment: its answer to a     *)
(* call is an arbitrary (status, value) pair.  A buffer is a slice: the    *)
(* address of its first byte and its length; a byte of memory is named by  *)
(* its address.                                                            *)
(***************************************************************************)
EXTENDS Integers, Sequences, FiniteSets, TLC

VARIABLES
    pc,     \* "running", or "panicked" once a call has panicked
    hist,   \* the invocations of this execution, in the caller's order
    fw,     \* the calls the firmware received, in the order it received them
    probe   \* <<>> or <<inv>>: an invocation kept from an earlier execution

vars == <<pc, hist, fw, probe>>

---------------------------------------------------------------------------
\* Bounds of the model.

\* Width of a machine word (usize, a register) in bits, scaled down.
XLEN == 8
\* Longest buffer a caller passes.
MaxLen == 2
\* Firmware status codes range over -MaxErrCode .. 1.
MaxErrCode == 4
\* Invocations per execution.
MaxCalls == 2

---------------------------------------------------------------------------
\* Program constants.

EXTENSION_ID == 1145193294      \* 0x4442434e
FID_WRITE == 0
FID_READ == 1
FID_WRITE_BYTE == 2
U8_MAX == 255

\* Status codes of the firmware interface.
SBI_SUCCESS == 0
SBI_ERR_FAILED == -1
SBI_ERR_INVALID_PARAM == -3

---------------------------------------------------------------------------
\* Machine words.

WordModulus == 2 ^ XLEN
USIZE_MAX == WordModulus - 1

\* `x as usize`: truncation (or zero extension) to the machine word.
AsUsize(x) == x % WordModulus

\* A slice: the address of its first byte and its length.  A slice lies in
\* the address space and its pointer is never null.
Slice(addr, len) == [addr |-> addr, len |-> len]
IsSlice(s) == s.addr >= 1 /\ s.len >= 0 /\ s.addr + s.len <= WordModulus

---------------------------------------------------------------------------
\* Results: Result<usize, SbiError>, Result<(), SbiError>, or a panic.

Ok(v) == [tag |-> "Ok", payload |-> "usize", value |-> v, err |-> "None"]
OkUnit == [tag |-> "Ok", payload |-> "unit", value |-> 0, err |-> "None"]
Err(e) == [tag |-> "Err", payload |-> "none", value |-> 0, err |-> e]
Panic == [tag |-> "Panic", payload |-> "none", value |-> 0, err |-> "None"]

\* Result::map(drop): a success loses its value, an error is kept.
MapDrop(r) == IF r.tag = "Ok" THEN OkUnit ELSE r

\* The error kind of a nonzero status code.
SbiErrorNew(status) ==
    CASE status = SBI_ERR_FAILED -> "Failed"
      [] status = SBI_ERR_INVALID_PARAM -> "InvalidParam"
      [] OTHER -> "Unsupported"

\* The translation of the firmware's answer.
SbiResult(resp) ==
    IF resp.status = SBI_SUCCESS THEN Ok(resp.value)
    ELSE Err(SbiErrorNew(resp.status))

\* One firmware call: the registers loaded and the answer received.
Trap(ext, fid, args, resp) ==
    [ext |-> ext, fid |-> fid, args |-> args,
     status |-> resp.status, value |-> resp.value]

\* ecall1(a0, ext, fid) and ecall3(a0, a1, a2, ext, fid): one trap, and the
\* translated answer.
ecall1(a0, ext, fid, resp) ==
    [trap |-> Trap(ext, fid, <<a0>>, resp), ret |-> SbiResult(resp)]

ecall3(a0, a1, a2, ext, fid, resp) ==
    [trap |-> Trap(ext, fid, <<a0, a1, a2>>, resp), ret |-> SbiResult(resp)]

\* What one invocation did: its arguments, the traps it made, its result.
Invocation(op, byte, bytes, traps, result) ==
    [op |-> op, byte |-> byte, addr |-> bytes.addr, len |-> bytes.len,
     ecalls |-> traps, result |-> result]

NoSlice == Slice(0, 0)

---------------------------------------------------------------------------
\* The three functions.  resp is the firmware's answer to the call made.

\* write_byte with the firmware's answer ignored.
write_byte_ignoring_result(byte, resp) ==
    LET e == ecall1(AsUsize(byte), EXTENSION_ID, FID_WRITE_BYTE, resp)
    IN  Invocation("write_byte", byte, NoSlice, <<e.trap>>, OkUnit)

\* write_byte without map(drop).
write_byte_keeping_value(byte, resp) ==
    LET e == ecall1(AsUsize(byte), EXTENSION_ID, FID_WRITE_BYTE, resp)
    IN  Invocation("write_byte", byte, NoSlice, <<e.trap>>, e.ret)

write_byte(byte, resp) ==
    LET e == ecall1(AsUsize(byte), EXTENSION_ID, FID_WRITE_BYTE, resp)
    IN  Invocation("write_byte", byte, NoSlice, <<e.trap>>, MapDrop(e.ret))

\* write answering the length it passed instead of the firmware's count.
write_returning_len(bytes, resp) ==
    IF bytes.len = 0
    THEN Invocation("write", 0, bytes, <<>>, Panic)
    ELSE LET e == ecall3(bytes.len, AsUsize(bytes.addr), 0,
                         EXTENSION_ID, FID_WRITE, resp)
         IN  Invocation("write", 0, bytes, <<e.trap>>,
                        IF e.ret.tag = "Ok" THEN Ok(bytes.len) ELSE e.ret)

\* write with the function selector of read.
write_with_read_fid(bytes, resp) ==
    IF bytes.len = 0
    THEN Invocation("write", 0, bytes, <<>>, Panic)
    ELSE LET e == ecall3(bytes.len, AsUsize(bytes.addr), 0,
                         EXTENSION_ID, FID_READ, resp)
         IN  Invocation("write", 0, bytes, <<e.trap>>, e.ret)

\* write passing the address in the high slot and 0 in the low one.
write_swapping_halves(bytes, resp) ==
    IF bytes.len = 0
    THEN Invocation("write", 0, bytes, <<>>, Panic)
    ELSE LET e == ecall3(bytes.len, 0, AsUsize(bytes.addr),
                         EXTENSION_ID, FID_WRITE, resp)
         IN  Invocation("write", 0, bytes, <<e.trap>>, e.ret)

\* write passing the address of the second byte, &bytes[1].
write_from_second_byte(bytes, resp) ==
    IF bytes.len = 0
    THEN Invocation("write", 0, bytes, <<>>, Panic)
    ELSE LET e == ecall3(bytes.len, AsUsize(bytes.addr + 1), 0,
                         EXTENSION_ID, FID_WRITE, resp)
         IN  Invocation("write", 0, bytes, <<e.trap>>, e.ret)

\* The count the previous invocation of this execution returned.
Cursor ==
    IF hist # <<>> /\ hist[Len(hist)].result.payload = "usize"
    THEN hist[Len(hist)].result.value ELSE 0

\* write resuming after the bytes the previous call got written: a cursor
\* kept between calls.
write_with_cursor(bytes, resp) ==
    IF bytes.len = 0
    THEN Invocation("write", 0, bytes, <<>>, Panic)
    ELSE LET e == ecall3(bytes.len, AsUsize(bytes.addr + Cursor), 0,
                         EXTENSION_ID, FID_WRITE, resp)
         IN  Invocation("write", 0, bytes, <<e.trap>>, e.ret)

\* &bytes[0] is a checked index: it panics on an empty slice, before any
\* firmware call.
write(bytes, resp) ==
    IF bytes.len = 0
    THEN Invocation("write", 0, bytes, <<>>, Panic)
    ELSE LET e == ecall3(bytes.len, AsUsize(bytes.addr), 0,
                         EXTENSION_ID, FID_WRITE, resp)
         IN  Invocation("write", 0, bytes, <<e.trap>>, e.ret)

\* read answering at most the capacity: the firmware's count clamped.
read_returning_len(bytes, resp) ==
    IF bytes.len = 0
    THEN Invocation("read", 0, bytes, <<>>, Panic)
    ELSE LET e == ecall3(bytes.len, AsUsize(bytes.addr), 0,
                         EXTENSION_ID, FID_READ, resp)
         IN  Invocation("read", 0, bytes, <<e.trap>>,
                        IF e.ret.tag = "Ok" THEN Ok(bytes.len) ELSE e.ret)

read(bytes, resp) ==
    IF bytes.len = 0
    THEN Invocation("read", 0, bytes, <<>>, Panic)
    ELSE LET e == ecall3(bytes.len, AsUsize(bytes.addr), 0,
                         EXTENSION_ID, FID_READ, resp)
         IN  Invocation("read", 0, bytes, <<e.trap>>, e.ret)

---------------------------------------------------------------------------
\* Inputs.

Bytes == 0 .. U8_MAX
Slices == {s \in [addr : 1 .. USIZE_MAX, len : 0 .. MaxLen] : IsSlice(s)}
Statuses == (0 - MaxErrCode) .. 1
\* The firmware's value word: small counts, a count beyond any buffer, and
\* the largest word.
Values == 0 .. (MaxLen + 1) \cup {USIZE_MAX}
Responses == [status : Statuses, value : Values]

\* The inputs of the executions of several calls.
SomeBytes == {U8_MAX}
SomeSlices == {Slice(1, 0), Slice(1, 1), Slice(USIZE_MAX - 1, 2)}
SomeResponses ==
    {[status |-> SBI_SUCCESS, value |-> v] : v \in {0, 1, MaxLen + 1}}
    \cup {[status |-> s, value |-> 0] :
            s \in {SBI_ERR_FAILED, SBI_ERR_INVALID_PARAM}}

---------------------------------------------------------------------------
\* The state machine.

Init ==
    /\ pc = "running"
    /\ hist = <<>>
    /\ fw = <<>>
    /\ probe = <<>>

\* One invocation, from call to return (or panic): the traps it makes reach
\* the firmware, and a panic ends the execution.
Invoke(inv) ==
    /\ pc = "running"
    /\ hist' = Append(hist, inv)
    /\ fw' = fw \o inv.ecalls
    /\ pc' = IF inv.result.tag = "Panic" THEN "panicked" ELSE "running"
    /\ UNCHANGED probe

\* The caller's three calls, with arguments from B or S and the firmware's
\* answer from R.
CallWriteByte(B, R) == \E b \in B, r \in R : Invoke(write_byte(b, r))
CallWrite(S, R) == \E s \in S, r \in R : Invoke(write(s, r))
CallRead(S, R) == \E s \in S, r \in R : Invoke(read(s, r))

\* Executions of up to MaxCalls calls.
WriteByte == Len(hist) < MaxCalls /\ CallWriteByte(SomeBytes, SomeResponses)
Write == Len(hist) < MaxCalls /\ CallWrite(SomeSlices, SomeResponses)
Read == Len(hist) < MaxCalls /\ CallRead(SomeSlices, SomeResponses)

\* A new execution of the program; one invocation of the old one is kept
\* for comparison.
Restart ==
    /\ hist # <<>>
    /\ \E i \in 1 .. Len(hist) : probe' = <<hist[i]>>
    /\ hist' = <<>>
    /\ fw' = <<>>
    /\ pc' = "running"

Next == WriteByte \/ Write \/ Read \/ Restart

Spec == Init /\ [][Next]_vars

\* One call, over every input.
OneWriteByte == hist = <<>> /\ CallWriteByte(Bytes, Responses)
OneWrite == hist = <<>> /\ CallWrite(Slices, Responses)
OneRead == hist = <<>> /\ CallRead(Slices, Responses)

NextCall == OneWriteByte \/ OneWrite \/ OneRead

SpecCall == Init /\ [][NextCall]_vars

---------------------------------------------------------------------------
\* What the properties speak of.

Invocations == {hist[i] : i \in 1 .. Len(hist)}

\* The invocations that reached the firmware.
Trapped == {inv \in Invocations : inv.ecalls # <<>>}

\* The addresses of the bytes of the caller's buffer, first byte first.
BufferBytes(inv) == [k \in 1 .. inv.len |-> inv.addr + k - 1]

\* The addresses of the bytes the firmware is shown: a0 bytes from the
\* address whose high word is a2 and whose low word is a1.
Presented(inv) ==
    IF inv.ecalls = <<>> THEN <<>>
    ELSE LET a == inv.ecalls[1].args
         IN  [k \in 1 .. a[1] |-> a[3] * (2 ^ XLEN) + a[2] + k - 1]

\* The registers each trap of an invocation loaded, and each answer.
Issued(inv) ==
    [j \in 1 .. Len(inv.ecalls) |->
        <<inv.ecalls[j].ext, inv.ecalls[j].fid, inv.ecalls[j].args>>]
Answers(inv) ==
    [j \in 1 .. Len(inv.ecalls) |->
        <<inv.ecalls[j].status, inv.ecalls[j].value>>]

\* The traps of the invocations hist[1 .. n], in the caller's order.
RECURSIVE TrapsUpTo(_)
TrapsUpTo(n) == IF n = 0 THEN <<>> ELSE TrapsUpTo(n - 1) \o hist[n].ecalls

\* The same call, answered the same way.
SameCall(a, b) ==
    /\ a.op = b.op
    /\ a.byte = b.byte
    /\ a.addr = b.addr
    /\ a.len = b.len
    /\ Answers(a) = Answers(b)

---------------------------------------------------------------------------
\* C1: write and read of a zero-length buffer return the success value with
\* count 0; they do not fail, panic or abort.
C1_ZeroLengthReturnsZero ==
    \A inv \in Invocations :
        (inv.op \in {"write", "read"} /\ inv.len = 0) => inv.result = Ok(0)

\* C2: for each of the three operations and every answer of the firmware,
\* status 0 yields a success and every nonzero status yields an error.
C2_StatusDecidesSuccess ==
    \A inv \in Trapped :
        /\ inv.ecalls[1].status = 0 => inv.result.tag = "Ok"
        /\ inv.ecalls[1].status # 0 => inv.result.tag = "Err"

C2_Witness ==
    \E inv \in Trapped :
        /\ inv.op = "write_byte"
        /\ inv.ecalls[1].status = 1
        /\ inv.result.tag = "Err"

C4_CountAtMostLen ==
    \A inv \in Trapped :
        (inv.op = "write" /\ inv.ecalls[1].status = 0) =>
            inv.result.value <= inv.len

\* C4 amended: with status 0, the count write returns is the firmware's
\* value word, unclamped, so it is at most the buffer's length exactly when
\* the firmware's value word is.
C4_CountIsFirmwareValue ==
    \A inv \in Trapped :
        (inv.op = "write" /\ inv.ecalls[1].status = 0) =>
            /\ inv.result = Ok(inv.ecalls[1].value)
            /\ (inv.result.value <= inv.len) <=> (inv.ecalls[1].value <= inv.len)

C4_Witness ==
    \E inv \in Trapped :
        /\ inv.op = "write"
        /\ inv.len = 1
        /\ inv.ecalls[1].status = 0
        /\ inv.ecalls[1].value = 2
        /\ inv.result = Ok(2)

\* C5 as stated: with status 0, the count read returns is at most the
\* buffer's capacity, and 0 when the firmware reports no input.
C5_CountAtMostCapacity ==
    \A inv \in Trapped :
        (inv.op = "read" /\ inv.ecalls[1].status = 0) =>
            /\ inv.result.value <= inv.len
            /\ inv.ecalls[1].value = 0 => inv.result = Ok(0)

\* C5 amended: with status 0, the count read returns is the firmware's
\* value word, unclamped: 0 when the firmware reports no input, and at most
\* the capacity exactly when the firmware's value word is.
C5_CountIsFirmwareValue ==
    \A inv \in Trapped :
        (inv.op = "read" /\ inv.ecalls[1].status = 0) =>
            /\ inv.result = Ok(inv.ecalls[1].value)
            /\ inv.ecalls[1].value = 0 => inv.result = Ok(0)
            /\ (inv.result.value <= inv.len) <=> (inv.ecalls[1].value <= inv.len)

C5_Witness ==
    \E inv \in Trapped :
        /\ inv.op = "read"
        /\ inv.len = 2
        /\ inv.ecalls[1].status = 0
        /\ inv.ecalls[1].value = 0
        /\ inv.result = Ok(0)

\* C6: every firmware call carries the extension ID 0x4442434e, and the
\* function selector is that of the operation: write_byte 2, write 0,
\* read 1.
C6_ExtensionAndSelector ==
    /\ \A k \in 1 .. Len(fw) : fw[k].ext = 1145193294
    /\ \A inv \in Invocations : \A j \in 1 .. Len(inv.ecalls) :
        /\ inv.ecalls[j].ext = 1145193294
        /\ inv.op = "write_byte" => inv.ecalls[j].fid = 2
        /\ inv.op = "write" => inv.ecalls[j].fid = 0
        /\ inv.op = "read" => inv.ecalls[j].fid = 1

C6_Witness ==
    /\ Len(fw) = 1
    /\ fw[1].fid = 0
    /\ \E inv \in Invocations : inv.op = "write" /\ inv.ecalls = fw

\* C7: write and read load (length, address-low, address-high): the length
\* is the buffer's, and the two halves are those of the address of the
\* buffer's first byte, which they recombine to.
C7_LengthAndAddressHalves ==
    \A inv \in Invocations : \A j \in 1 .. Len(inv.ecalls) :
        inv.op \in {"write", "read"} =>
            LET a == inv.ecalls[j].args
            IN  /\ Len(a) = 3
                /\ a[1] = inv.len
                /\ a[2] = inv.addr % (2 ^ XLEN)
                /\ a[3] = inv.addr \div (2 ^ XLEN)
                /\ a[3] * (2 ^ XLEN) + a[2] = inv.addr

C7_Witness ==
    \E inv \in Trapped :
        /\ inv.op = "read"
        /\ inv.addr = (2 ^ XLEN) - 2
        /\ inv.len = 2
        /\ inv.ecalls[1].args = <<2, (2 ^ XLEN) - 2, 0>>

\* C8: each invocation issues exactly one firmware call and then returns,
\* and an error it returns is of the kind the firmware reported for that
\* call.
C8_ExactlyOneCall ==
    \A inv \in Invocations :
        /\ Len(inv.ecalls) = 1
        /\ inv.result.tag \in {"Ok", "Err"}
        /\ inv.result.tag = "Err" <=> inv.ecalls[1].status # 0

\* C9: each write shows the firmware exactly the caller's buffer, from its
\* first byte and in order; the calls reach the firmware in the caller's
\* order; the bytes reported written by a call returning n are the first n
\* bytes of its buffer.
C9_RegionAndOrder ==
    /\ fw = TrapsUpTo(Len(hist))
    /\ \A inv \in Invocations :
        inv.op = "write" =>
            /\ Presented(inv) = BufferBytes(inv)
            /\ (inv.result.payload = "usize" /\ inv.result.value <= inv.len) =>
                    SubSeq(Presented(inv), 1, inv.result.value)
                        = SubSeq(BufferBytes(inv), 1, inv.result.value)

C9_Witness ==
    /\ Len(hist) = 2
    /\ Len(fw) = 2
    /\ hist[1].op = "write" /\ hist[1].len = 1 /\ hist[1].result = Ok(1)
    /\ hist[2].op = "write" /\ hist[2].len = 2 /\ hist[2].result = Ok(1)
    /\ fw[1].args[2] = 1
    /\ fw[2].args[2] = (2 ^ XLEN) - 2

\* C10: the shim keeps no state between calls: whatever the calls made
\* before, in this execution or another, the same call answered the same
\* way loads the same registers and returns the same result.
C10_NoStateBetweenCalls ==
    \A a \in Invocations \cup {probe[i] : i \in 1 .. Len(probe)} :
        \A b \in Invocations :
            SameCall(a, b) => Issued(a) = Issued(b) /\ a.result = b.result

C10_Witness ==
    /\ Len(probe) = 1
    /\ Len(hist) = 2
    /\ hist[1].op = "write" /\ hist[1].result = Ok(1)
    /\ hist[2].op = "write" /\ hist[2].len = 2
    /\ SameCall(probe[1], hist[2])
    /\ Issued(probe[1]) = Issued(hist[2])

====
